---- MODULE Spec2Model ----
(***************************************************************************)
(* Model of 01.Python/IIC_CRC.py: the CRC16-CCITT routine CRC16_CCITT, the *)
(* hex text decoder hex_to_bytes, and the Tk form around them              *)
(* (calculate_crc, clear_all and the module-level row construction).       *)
(*                                                                         *)
(* Characters are Unicode code points, texts are sequences of code points, *)
(* Python ints are unbounded integers (>> is floor division by 2, & with a *)
(* low mask is a floor modulus, also for negative values).                 *)
(*                                                                         *)
(* Three specifications:                                                   *)
(*   Spec     the form: edits of the fields, Calculate, Clear              *)
(*   SpecCRC  one call of CRC16_CCITT, one bit-step at a time              *)
(*   SpecHex  one call of hex_to_bytes                                     *)
(***************************************************************************)
EXTENDS Integers, Sequences, FiniteSets, TLC

VARIABLES
    text_entries,           \* row -> text of the row's input Entry
    initial_value_entries,  \* row -> text of the row's initial-value Entry
    crc_labels,             \* row -> what the row's CRC label shows
    data,                   \* CRC16_CCITT: the bytes argument
    Initial0,               \* CRC16_CCITT: the Initial argument as passed
    Initial,                \* CRC16_CCITT: the running register (the parameter, reassigned)
    pos,                    \* CRC16_CCITT: number of bytes the outer for has taken
    bits,                   \* CRC16_CCITT: iterations done of the inner for of the current byte
    data_val,               \* CRC16_CCITT: the shifting copy of the current byte
    steps,                  \* CRC16_CCITT: bit-steps (inner loop bodies) executed in this call
    crc_value,              \* CRC16_CCITT: the returned value
    pc,                     \* CRC16_CCITT: position in the call
    hex_str,                \* hex_to_bytes: the text argument
    decoded,                \* hex_to_bytes: the outcome (bytes returned or ValueError raised)
    hpc                     \* hex_to_bytes: position in the call

vars == <<text_entries, initial_value_entries, crc_labels,
          data, Initial0, Initial, pos, bits, data_val, steps, crc_value, pc,
          hex_str, decoded, hpc>>

formVars == <<text_entries, initial_value_entries, crc_labels>>
crcVars  == <<data, Initial0, Initial, pos, bits, data_val, steps, crc_value, pc>>
hexVars  == <<hex_str, decoded, hpc>>

(***************************************************************************)
(* Bounds of the model                                                     *)
(***************************************************************************)
MaxDataLen  == 2   \* longest byte sequence enumerated over ByteSamples
MaxSmallInit == 3  \* initial values 0..MaxSmallInit are tried besides the named ones
MaxLen      == 4   \* longest text enumerated over Alphabet for hex_to_bytes
NumRows     == 2   \* rows of the form that are modelled (the form builds 10)
MaxFieldLen == 8   \* longest initial-value field text (Clear only ever lengthens it)

(***************************************************************************)
(* Python integers                                                         *)
(*                                                                         *)
(* A Python int has no width.  It is held as [hi, lo] with value           *)
(* hi * 2^16 + lo and 0 <= lo < 2^16 (hi is negative for a negative int),  *)
(* so that the values an initial-value field can hold stay representable.  *)
(***************************************************************************)
PyInt(n) == [hi |-> n \div 65536, lo |-> n % 65536]

\* the int lies in [0, 0xFFFF]: no bit above bit 15, not negative
Is16Bit(x) == x.hi = 0

\* bit k of a non-negative integer
Bit(a, k) == (a \div (2 ^ k)) % 2

\* what XOR with m adds to a at bit k: nothing when m has the bit clear,
\* otherwise the bit of a is flipped
XorTerm(a, m, k) ==
    IF Bit(m, k) = 0 THEN 0 ELSE IF Bit(a, k) = 0 THEN 2 ^ k ELSE 0 - (2 ^ k)

\* a ^ m for 0 <= a, m < 2^16
Xor16(a, m) ==
    a + XorTerm(a, m, 0) + XorTerm(a, m, 1) + XorTerm(a, m, 2) + XorTerm(a, m, 3)
      + XorTerm(a, m, 4) + XorTerm(a, m, 5) + XorTerm(a, m, 6) + XorTerm(a, m, 7)
      + XorTerm(a, m, 8) + XorTerm(a, m, 9) + XorTerm(a, m, 10) + XorTerm(a, m, 11)
      + XorTerm(a, m, 12) + XorTerm(a, m, 13) + XorTerm(a, m, 14) + XorTerm(a, m, 15)

\* a ^ b for two single bits
Xor1(a, b) == (a + b) % 2

\* x ^ m for a mask 0 <= m < 2^16: the low 16 bits are XORed, the bits above kept
PyXor(x, m) == [hi |-> x.hi, lo |-> Xor16(x.lo, m)]

\* x >> 1 (arithmetic shift: bit 16 comes down into bit 15)
Shr1(x) == [hi |-> x.hi \div 2, lo |-> (x.hi % 2) * 32768 + (x.lo \div 2)]

\* x & 0x0001 and x & 0xFFFF, plain numbers
And0001(x) == x.lo % 2
AndFFFF(x) == x.lo

\* x * 16 + d for a digit d, and -x
Mul16Add(x, d) ==
    [hi |-> x.hi * 16 + ((x.lo * 16 + d) \div 65536), lo |-> (x.lo * 16 + d) % 65536]
Negate(x) ==
    IF x.lo = 0 THEN [hi |-> 0 - x.hi, lo |-> 0]
    ELSE [hi |-> 0 - x.hi - 1, lo |-> 65536 - x.lo]

(***************************************************************************)
(* CRC16_CCITT                                                             *)
(***************************************************************************)
POLY_Reverse == 33800    \* 0x8408

\* faulty variants of the step: the polynomial never applied, and the
\* polynomial without its top bit
CRCStep_NoPoly(reg, d) == Shr1(reg)
CRCStep_MaskedPoly(reg, d) ==
    IF Xor1(And0001(reg), d % 2) # 0
    THEN PyXor(Shr1(reg), POLY_Reverse % 32768)
    ELSE Shr1(reg)

\* the body of the inner for: the new register for register reg and byte copy d
CRCStep(reg, d) ==
    IF Xor1(And0001(reg), d % 2) # 0
    THEN PyXor(Shr1(reg), POLY_Reverse)
    ELSE Shr1(reg)

\* faulty variants of the return: an 8-bit mask, and the big-endian swap the
\* reference routine leaves commented out
ReturnValue_Low8(reg) == AndFFFF(reg) % 256
ReturnValue_Swapped(reg) == (AndFFFF(reg) % 256) * 256 + (AndFFFF(reg) \div 256)

\* the value the return statement produces from the final register
ReturnValue(reg) == AndFFFF(reg)

RECURSIVE BitLoop(_, _, _)
\* the register after n iterations of the inner for on byte d, entered with
\* register reg; data_val has been shifted right n - 1 times before the n-th
BitLoop(reg, d, n) ==
    IF n = 0 THEN reg ELSE CRCStep(BitLoop(reg, d, n - 1), d \div (2 ^ (n - 1)))

\* every Python int
PyInts == [hi : Int, lo : 0..65535]

\* the whole call: the outer for takes the bytes in order, each through the
\* inner for, and the return masks the register
CRC16_CCITT(bytes, init) ==
    LET ByteLoop[i \in 1..(Len(bytes) + 1), reg \in PyInts] ==
            IF i > Len(bytes) THEN reg
            ELSE ByteLoop[i + 1, BitLoop(reg, bytes[i] % 256, 8)]
    IN  ReturnValue(ByteLoop[1, init])

(***************************************************************************)
(* Characters                                                              *)
(***************************************************************************)
\* Py_ISSPACE: the ASCII whitespace bytes.fromhex skips between byte pairs
\* (tab, newline, vertical tab, form feed, carriage return, space)
Py_ISSPACE(c) == c \in 9..13 \/ c = 32

\* str.isspace for one character, as str.strip() and int() use it: the ASCII
\* whitespace, the separators 28..31, NEL and the no-break space (the code
\* points above 160 are outside every alphabet used here)
IsSpace(c) == c \in 9..13 \/ c \in 28..32 \/ c = 133 \/ c = 160

\* _PyLong_DigitValue: 0-9, a-z and A-Z are digits of value 0..35, all else 37
DigitValue(c) ==
    IF c \in 48..57 THEN c - 48
    ELSE IF c \in 97..122 THEN c - 87
    ELSE IF c \in 65..90 THEN c - 55
    ELSE 37

(***************************************************************************)
(* hex_to_bytes                                                            *)
(***************************************************************************)
Returned(b)  == [ok |-> TRUE, bytes |-> b]
Raised(m, p) == [ok |-> FALSE, error |-> m, position |-> p]

LengthMessage  == "Hex string length must be even."
FromhexMessage == "non-hexadecimal number found in fromhex() arg at position"

\* faulty variant of replace: only the first occurrence removed
Replace_First(s, ch) ==
    IF \E i \in 1..Len(s) : s[i] = ch
    THEN LET i == CHOOSE k \in 1..Len(s) : s[k] = ch /\ \A j \in 1..(k - 1) : s[j] # ch
         IN  SubSeq(s, 1, i - 1) \o SubSeq(s, i + 1, Len(s))
    ELSE s

\* str.replace(ch, ""): every occurrence of the character ch removed
Replace(s, ch) == SelectSeq(s, LAMBDA c : c # ch)

\* the three chained replace calls: spaces, newlines, tabs
Strip3(s) == Replace(Replace(Replace(s, 32), 10), 9)

\* first index >= i of s that holds no Py_ISSPACE character, Len(s)+1 if none
RECURSIVE SkipSpaces(_, _)
SkipSpaces(s, i) ==
    IF i <= Len(s) /\ Py_ISSPACE(s[i]) THEN SkipSpaces(s, i + 1) ELSE i

\* one byte from its two digit values, most significant nibble first
PairValue(top, bot) == top * 16 + bot

\* the scanning loop of bytes.fromhex from index i (1-based) with out decoded so far;
\* positions in the error are 0-based as Python reports them
RECURSIVE FromhexScan(_, _, _)
FromhexScan(s, i, out) ==
    LET j == SkipSpaces(s, i) IN
    IF j > Len(s) THEN Returned(out)
    ELSE IF DigitValue(s[j]) >= 16 THEN Raised(FromhexMessage, j - 1)
    ELSE IF j + 1 > Len(s) \/ DigitValue(s[j + 1]) >= 16 THEN Raised(FromhexMessage, j)
    ELSE FromhexScan(s, j + 2, Append(out, PairValue(DigitValue(s[j]), DigitValue(s[j + 1]))))

\* variant of fromhex that skips nothing but spaces (Python before 3.7)
fromhex_SpacesOnly(s) ==
    IF \E i \in 1..Len(s) : s[i] >= 128 \/ (Py_ISSPACE(s[i]) /\ s[i] # 32)
    THEN Raised(FromhexMessage,
                (CHOOSE k \in 1..Len(s) :
                    /\ (s[k] >= 128 \/ (Py_ISSPACE(s[k]) /\ s[k] # 32))
                    /\ \A j \in 1..(k - 1) : ~(s[j] >= 128 \/ (Py_ISSPACE(s[j]) /\ s[j] # 32))) - 1)
    ELSE FromhexScan(s, 1, <<>>)

\* bytes.fromhex (Python 3.7 and later): a non-ASCII character anywhere is an
\* error at its position, otherwise the scanning loop decides
fromhex(s) ==
    IF \E i \in 1..Len(s) : s[i] >= 128
    THEN Raised(FromhexMessage,
                (CHOOSE k \in 1..Len(s) : s[k] >= 128 /\ \A j \in 1..(k - 1) : s[j] < 128) - 1)
    ELSE FromhexScan(s, 1, <<>>)

\* faulty variant of the length test: never taken
LengthIsOdd_Never(s) == FALSE

\* the length test of hex_to_bytes on the stripped text
LengthIsOdd(s) == Len(s) % 2 # 0

hex_to_bytes(text) ==
    LET s == Strip3(text) IN
    IF LengthIsOdd(s) THEN Raised(LengthMessage, -1) ELSE fromhex(s)

(***************************************************************************)
(* str.strip(), int(text, 16) and format(value, "04X")                     *)
(***************************************************************************)
\* str.strip(): leading and trailing whitespace removed
RECURSIVE StripLeft(_)
StripLeft(s) == IF s # <<>> /\ IsSpace(Head(s)) THEN StripLeft(Tail(s)) ELSE s
RECURSIVE StripRight(_)
StripRight(s) ==
    IF s # <<>> /\ IsSpace(s[Len(s)]) THEN StripRight(SubSeq(s, 1, Len(s) - 1)) ELSE s
strip(s) == StripRight(StripLeft(s))

\* the digits of int(text, 16) after sign and prefix: hex digits with single
\* underscores between them
IsHexDigit(c) == DigitValue(c) < 16
DigitsOk(r) ==
    /\ Len(r) >= 1
    /\ \A i \in 1..Len(r) : IsHexDigit(r[i]) \/ r[i] = 95
    /\ r[1] # 95 /\ r[Len(r)] # 95
    /\ \A i \in 1..(Len(r) - 1) : ~(r[i] = 95 /\ r[i + 1] = 95)

RECURSIVE DigitsValue(_, _)
\* the value of the digits of r, most significant first, on top of acc
DigitsValue(r, acc) ==
    IF r = <<>> THEN acc
    ELSE IF Head(r) = 95 THEN DigitsValue(Tail(r), acc)
    ELSE DigitsValue(Tail(r), Mul16Add(acc, DigitValue(Head(r))))

\* int(text, 16): whitespace around, an optional sign, an optional 0x or 0X
\* prefix (one underscore may follow it), then the digits; anything else is
\* a ValueError
PyInt16(text) ==
    LET s0     == strip(text)
        neg    == s0 # <<>> /\ Head(s0) = 45
        signed == s0 # <<>> /\ Head(s0) \in {43, 45}
        s1     == IF signed THEN Tail(s0) ELSE s0
        pre    == Len(s1) >= 2 /\ s1[1] = 48 /\ s1[2] \in {120, 88}
        s2     == IF pre THEN SubSeq(s1, 3, Len(s1)) ELSE s1
        s3     == IF pre /\ s2 # <<>> /\ Head(s2) = 95 THEN Tail(s2) ELSE s2
    IN  IF DigitsOk(s3)
        THEN [ok |-> TRUE,
              value |-> IF neg THEN Negate(DigitsValue(s3, PyInt(0))) ELSE DigitsValue(s3, PyInt(0))]
        ELSE [ok |-> FALSE, value |-> PyInt(0)]

\* the character of one hex digit value, upper case
HexChar(v) == IF v < 10 THEN 48 + v ELSE 55 + v

RECURSIVE HexDigits(_)
\* the upper-case hex digits of n >= 0, most significant first, no padding ("" for 0)
HexDigits(n) == IF n = 0 THEN <<>> ELSE Append(HexDigits(n \div 16), HexChar(n % 16))

RECURSIVE ZeroPad(_, _)
ZeroPad(s, w) == IF Len(s) >= w THEN s ELSE ZeroPad(<<48>> \o s, w)

\* f"{value:04X}" for value >= 0
Format04X(value) == ZeroPad(HexDigits(value), 4)

(***************************************************************************)
(* The form                                                                *)
(***************************************************************************)
Rows == 1..NumRows

DefaultText    == <<51, 52, 32, 49, 69, 32, 48, 56, 32, 65, 67, 32, 48, 68>>  \* "34 1E 08 AC 0D"
DefaultInitial == <<70, 70, 70, 70>>                                          \* "FFFF"

\* what a CRC label shows
LabelStart    == [kind |-> "CRC16: ", text |-> <<>>, error |-> "", position |-> -1]
LabelNull     == [kind |-> "NULL", text |-> <<>>, error |-> "", position |-> -1]
LabelValue(v) == [kind |-> "04X", text |-> Format04X(v), error |-> "", position |-> -1]
LabelError(e) == [kind |-> "Error: ", text |-> <<>>, error |-> e.error, position |-> e.position]

\* texts the user puts into an input field
RowTexts ==
    { DefaultText,
      <<>>,
      <<49>>,                      \* "1"
      <<49, 71>>,                  \* "1G"
      <<32, 10>> }                 \* " \n"

\* texts the user puts into an initial-value field
TypedInitials ==
    { <<48, 48, 48, 48>>,          \* "0000"
      <<49, 48, 48, 48, 48>>,      \* "10000"
      <<45, 49>>,                  \* "-1"
      <<71>> }                     \* "G"

\* the module-level name initial_value_entry: after the construction loop it
\* is the Entry of the last row; this is its text
initial_value_entry == initial_value_entries[NumRows]

\* the initial value calculate_crc passes on: the field parsed as hex,
\* 0xFFFF when it does not parse
InitialValueOf(text) ==
    LET r == PyInt16(text) IN IF r.ok THEN r.value ELSE PyInt(65535)

FormInit ==
    /\ text_entries = [i \in Rows |-> IF i = 1 THEN DefaultText ELSE <<>>]
    /\ initial_value_entries = [i \in Rows |-> DefaultInitial]
    /\ crc_labels = [i \in Rows |-> LabelStart]

CrcIdle ==
    /\ data = <<>> /\ Initial0 = PyInt(65535) /\ Initial = PyInt(65535)
    /\ pos = 0 /\ bits = 0 /\ data_val = 0 /\ steps = 0 /\ crc_value = 0
    /\ pc = "idle"

HexIdle ==
    /\ hex_str = <<>> /\ decoded = Returned(<<>>) /\ hpc = "idle"

Init == FormInit /\ CrcIdle /\ HexIdle

\* the user replaces the text of the input field of row i
EditText(i, t) ==
    /\ text_entries' = [text_entries EXCEPT ![i] = t]
    /\ UNCHANGED <<initial_value_entries, crc_labels, crcVars, hexVars>>

\* the user replaces the text of the initial-value field of row i
EditInitial(i, t) ==
    /\ initial_value_entries' = [initial_value_entries EXCEPT ![i] = t]
    /\ UNCHANGED <<text_entries, crc_labels, crcVars, hexVars>>

\* the label calculate_crc gives a row from the row's text and the initial value
RowLabel(text, initial_value) ==
    LET hs == strip(text) IN
    IF hs # <<>>
    THEN LET byte_data == hex_to_bytes(hs) IN
         IF byte_data.ok
         THEN LabelValue(CRC16_CCITT(byte_data.bytes, initial_value))
         ELSE LabelError(byte_data)
    ELSE LabelNull

\* calculate_crc, the Calculate button
Calculate ==
    /\ LET initial_value == InitialValueOf(initial_value_entry) IN
       crc_labels' = [i \in Rows |-> RowLabel(text_entries[i], initial_value)]
    /\ UNCHANGED <<text_entries, initial_value_entries, crcVars, hexVars>>

\* Entry.insert(0, "FFFF"): the text goes in front of what the field holds
InsertFront(new, old) == new \o old

\* clear_all, the Clear button
Clear ==
    /\ \A i \in Rows : Len(initial_value_entries[i]) + Len(DefaultInitial) <= MaxFieldLen
    /\ initial_value_entries' =
           [i \in Rows |-> InsertFront(DefaultInitial, initial_value_entries[i])]
    /\ text_entries' = [i \in Rows |-> IF i = 1 THEN DefaultText ELSE <<>>]
    /\ crc_labels' = [i \in Rows |-> LabelStart]
    /\ UNCHANGED <<crcVars, hexVars>>

Next ==
    \/ \E i \in Rows, t \in RowTexts : EditText(i, t)
    \/ \E i \in Rows, t \in TypedInitials : EditInitial(i, t)
    \/ Calculate
    \/ Clear

Spec == Init /\ [][Next]_vars

(***************************************************************************)
(* One call of CRC16_CCITT, a bit-step at a time                           *)
(***************************************************************************)
\* the three vectors of the docstring
data_hex_1 ==
    <<255, 0, 0, 2, 185, 220, 243, 114, 187, 212, 184, 90,
      200, 117, 194, 124, 129, 248, 5, 223, 255, 0, 0, 1>>
data_hex_2 ==
    <<255, 0, 0, 0, 30, 240, 30, 199, 79, 130, 120, 197,
      130, 224, 140, 112, 210, 60, 120, 233, 255, 0, 0, 1>>
data_hex_3 == <<52, 30, 8, 172, 13>>

ByteSamples == {0, 1, 128, 255}

\* the byte sequences a call is made with
Vectors ==
    {data_hex_1, data_hex_2, data_hex_3}
        \cup UNION {[1..n -> ByteSamples] : n \in 0..MaxDataLen}

\* the texts an initial-value field can hold: the default, what the user
\* types, and either with the "FFFF" that Clear puts in front
InitialFieldTexts ==
    LET typed == TypedInitials \cup {DefaultInitial} IN
    typed \cup {InsertFront(DefaultInitial, t) :
                    t \in {u \in typed : Len(u) + Len(DefaultInitial) <= MaxFieldLen}}

\* 16-bit initial values a caller passes
InitialSamples ==
    {PyInt(n) : n \in 0..MaxSmallInit}
        \cup {PyInt(65535), PyInt(32768), PyInt(33800), PyInt(4660), PyInt(2065)}

\* the initial values of the calls: those, and the ones calculate_crc parses
\* from the initial-value field
InitialArgs == InitialSamples \cup {InitialValueOf(t) : t \in InitialFieldTexts}

CRCInit ==
    /\ FormInit /\ HexIdle
    /\ data \in Vectors
    /\ Initial0 \in InitialArgs
    /\ Initial = Initial0
    /\ pos = 0 /\ bits = 0 /\ data_val = 0 /\ steps = 0 /\ crc_value = 0
    /\ pc = "for"

\* for byte in data: data_val = byte & 0xFF
NextByte ==
    /\ pc = "for" /\ pos < Len(data)
    /\ pos' = pos + 1
    /\ data_val' = data[pos + 1] % 256
    /\ bits' = 0
    /\ pc' = "bit"
    /\ UNCHANGED <<data, Initial0, Initial, steps, crc_value, formVars, hexVars>>

\* one iteration of for _ in range(8)
BitStep ==
    /\ pc = "bit" /\ bits < 8
    /\ Initial' = CRCStep(Initial, data_val)
    /\ data_val' = data_val \div 2
    /\ bits' = bits + 1
    /\ steps' = steps + 1
    /\ pc' = IF bits + 1 = 8 THEN "for" ELSE "bit"
    /\ UNCHANGED <<data, Initial0, pos, crc_value, formVars, hexVars>>

\* return Initial & 0xFFFF
Return ==
    /\ pc = "for" /\ pos = Len(data)
    /\ crc_value' = ReturnValue(Initial)
    /\ pc' = "done"
    /\ UNCHANGED <<data, Initial0, Initial, pos, bits, data_val, steps, formVars, hexVars>>

CRCNext == NextByte \/ BitStep \/ Return

SpecCRC == CRCInit /\ [][CRCNext]_vars

(***************************************************************************)
(* One call of hex_to_bytes                                                *)
(***************************************************************************)
\* tab, newline, carriage return, space, '1', 'A', 'G', 'f', no-break space
Alphabet == {9, 10, 13, 32, 49, 65, 71, 102, 160}

\* "34\t1E\n08 AC\t0D"
TabbedText == <<51, 52, 9, 49, 69, 10, 48, 56, 32, 65, 67, 9, 48, 68>>

Texts ==
    {DefaultText, TabbedText} \cup UNION {[1..n -> Alphabet] : n \in 0..MaxLen}

HexInit ==
    /\ FormInit /\ CrcIdle
    /\ hex_str \in Texts
    /\ decoded = Returned(<<>>)
    /\ hpc = "call"

\* the call runs to its return or its raise
Decode ==
    /\ hpc = "call"
    /\ decoded' = hex_to_bytes(hex_str)
    /\ hpc' = "done"
    /\ UNCHANGED <<hex_str, formVars, crcVars>>

HexNext == Decode

SpecHex == HexInit /\ [][HexNext]_vars

(***************************************************************************)
(* Properties of CRC16_CCITT (checked under SpecCRC)                       *)
(***************************************************************************)
\* C1: the call on the bytes 34 1E 08 AC 0D with initial value 0xFFFF returns
\* 0xBFD2: most significant byte 0xBF (191), least significant byte 0xD2 (210),
\* the register as it is, no byte swap.
C1_AppNoteVector ==
    (pc = "done" /\ data = data_hex_3 /\ Initial0 = PyInt(65535))
        => /\ crc_value \div 256 = 191
           /\ crc_value % 256 = 210
           /\ crc_value = AndFFFF(Initial)

C1_Witness == pc = "done" /\ data = data_hex_3 /\ Initial0 = PyInt(65535)

\* C2: with initial value 0xFFFF the two MIPI CSI-2 vectors of the docstring
\* give 0x00F0 (LSB 0xF0 = 240, MSB 0x00) and 0xE569 (LSB 0x69 = 105,
\* MSB 0xE5 = 229).
C2_MipiVectors ==
    (pc = "done" /\ Initial0 = PyInt(65535))
        => /\ data = data_hex_1 => (crc_value % 256 = 240 /\ crc_value \div 256 = 0)
           /\ data = data_hex_2 => (crc_value % 256 = 105 /\ crc_value \div 256 = 229)

C2_Witness == pc = "done" /\ data = data_hex_2 /\ Initial0 = PyInt(65535) /\ steps = 8 * 24

\* C3: on the empty byte sequence, for every initial value in [0, 0xFFFF], the
\* call performs no bit-step and returns exactly the initial value.
C3_EmptyReturnsInitial ==
    (pc = "done" /\ data = <<>> /\ Is16Bit(Initial0))
        => (steps = 0 /\ crc_value = Initial0.lo)

C3_Witness == pc = "done" /\ data = <<>> /\ Is16Bit(Initial0) /\ Initial0.lo > 255

\* C7: in every call, the calls of calculate_crc with the initial value parsed
\* from the initial-value field included, the register has no bit above bit 15
\* after every bit-step.
C7_RegisterIs16Bit == steps > 0 => Is16Bit(Initial)

\* the register before a bit-step, from the register after it and the data
\* bit the step consumed (registers in [0, 0xFFFF])
UnStep(out, dbit) ==
    IF out >= 32768
    THEN 2 * Xor16(out, POLY_Reverse) + (1 - dbit)
    ELSE 2 * out + dbit

\* C10: for fixed data, two distinct initial values in [0, 0xFFFF] never give
\* the same result (the result of the call differs from the result for every
\* other initial value), and every bit-step on a 16-bit register can be undone.
C10_InitialInjective ==
    /\ (pc = "done" /\ Is16Bit(Initial0))
           => \A other \in InitialSamples \ {Initial0} : CRC16_CCITT(data, other) # crc_value
    /\ Is16Bit(Initial)
           => \A d \in 0..1 : UnStep(CRCStep(Initial, d).lo, d) = Initial.lo

C10_Witness ==
    /\ pc = "done" /\ data = data_hex_1 /\ Is16Bit(Initial0) /\ Initial0 # PyInt(65535)
    /\ crc_value # CRC16_CCITT(data, PyInt(65535))

(***************************************************************************)
(* Properties of hex_to_bytes (checked under SpecHex)                      *)
(***************************************************************************)
\* space, tab, newline: the characters the decoder removes
Blank(c) == c \in {32, 9, 10}

\* whitespace other than those (carriage return, vertical tab, form feed, ...)
OtherSpace(c) == IsSpace(c) /\ ~Blank(c)

\* the text with spaces, tabs and newlines removed
Stripped(t) == SelectSeq(t, LAMBDA c : ~Blank(c))

HexChars == (48..57) \cup (65..70) \cup (97..102)

\* the value of a hex digit, from the digit strings
UpperDigits == <<48, 49, 50, 51, 52, 53, 54, 55, 56, 57, 65, 66, 67, 68, 69, 70>>
LowerDigits == <<48, 49, 50, 51, 52, 53, 54, 55, 56, 57, 97, 98, 99, 100, 101, 102>>
HexValue(c) == CHOOSE v \in 0..15 : UpperDigits[v + 1] = c \/ LowerDigits[v + 1] = c

\* the digits of a text, in order, and the bytes of a text of digit pairs
DigitsOf(t) == SelectSeq(t, LAMBDA c : c \in HexChars)
PairsOf(d) == [i \in 1..(Len(d) \div 2) |-> 16 * HexValue(d[2 * i - 1]) + HexValue(d[2 * i])]

\* number of hex digits of s before index i
DigitsBefore(s, i) == Cardinality({j \in 1..(i - 1) : s[j] \in HexChars})

\* s has a character that is neither a hex digit nor ASCII whitespace standing
\* between whole digit pairs, or its last digit has no partner
Unacceptable(s) ==
    \/ \E i \in 1..Len(s) :
           /\ s[i] \notin HexChars
           /\ ~(s[i] \in 9..13 /\ DigitsBefore(s, i) % 2 = 0)
    \/ Len(DigitsOf(s)) % 2 # 0

C6_DecodeHexPairs ==
    (/\ hpc = "done"
     /\ \A i \in 1..Len(hex_str) : hex_str[i] \in HexChars \/ Blank(hex_str[i])
     /\ Len(Stripped(hex_str)) % 2 = 0)
        => LET s == Stripped(hex_str) IN
           /\ decoded.ok
           /\ Len(decoded.bytes) = Len(s) \div 2
           /\ \A i \in 0..((Len(s) \div 2) - 1) :
                  decoded.bytes[i + 1] = 16 * HexValue(s[2 * i + 1]) + HexValue(s[2 * i + 2])

C6_Witness ==
    /\ hpc = "done" /\ hex_str = TabbedText
    /\ decoded.ok /\ decoded.bytes = data_hex_3

(***************************************************************************)
(* Properties of the form (checked under Spec)                             *)
(***************************************************************************)
\* row i holds a non-empty text that decodes
ValidRow(i) == strip(text_entries[i]) # <<>> /\ hex_to_bytes(strip(text_entries[i])).ok

\* C8: Calculate shows, for each row with a non-empty valid hex text, the
\* checksum of the row's bytes from the row's own initial-value field (0xFFFF
\* when that field does not parse).
C8_Original ==
    [][Calculate =>
          \A i \in Rows :
              ValidRow(i) =>
                  crc_labels'[i] =
                      LabelValue(CRC16_CCITT(hex_to_bytes(strip(text_entries[i])).bytes,
                                             InitialValueOf(initial_value_entries[i])))]_vars

\* C9: Clear brings the form back to its start-up state: every initial-value
\* field "FFFF", the first input field "34 1E 08 AC 0D", the others empty,
\* every label "CRC16: ".
C9_Original ==
    [][Clear =>
          /\ initial_value_entries' = [i \in Rows |-> DefaultInitial]
          /\ text_entries' = [i \in Rows |-> IF i = 1 THEN DefaultText ELSE <<>>]
          /\ crc_labels' = [i \in Rows |-> LabelStart]]_vars

====
